---- MODULE Spec2Model ----
\* Model of src/data.py: the batch annotation pipeline (prompt -> completion
\* client with retry -> JSON extraction -> item processor -> coordinator with a
\* bounded thread pool, an error ledger guarded by a lock, and two artifacts).
EXTENDS Integers, Sequences, FiniteSets, TLC

\* ---------------------------------------------------------------- bounds
MaxN == 2                  \* largest number of input records explored
MaxWorkersCfg == 2         \* largest LLM_MAX_WORKERS configuration explored
MaxRetriesCfg == 2         \* largest LLM_MAX_RETRIES configuration explored
MaxRetriesItem == 3        \* the same for the runs with at most one record
MaxRequests == 4           \* largest records x LLM_MAX_RETRIES product explored

\* ------------------------------------------------------------ text model
\* A text is a sequence of tokens.  "{" "}" "," are the JSON punctuation,
\* "w" is one whitespace character, "p" is one character of prose, and the
\* remaining tokens are complete "key": value members of a JSON object.
MemberTokens == {"A", "X", "O", "S", "E"}

MemberKey(t) ==
    CASE t = "A" -> "action"
      [] t = "X" -> "action"
      [] t = "O" -> "object_name"
      [] t = "S" -> "confidence_score"
      [] t = "E" -> "error"

MemberVal(t) ==
    CASE t = "A" -> "add"
      [] t = "X" -> "fly"
      [] t = "O" -> "[[OBJECT_NAME:balloon]]"
      [] t = "S" -> "9"
      [] t = "E" -> "boom"

EmptyObj == [k \in {} |-> ""]

\* str.strip(): drop leading and trailing whitespace
RECURSIVE LStrip(_)
LStrip(s) == IF s # <<>> /\ Head(s) = "w" THEN LStrip(Tail(s)) ELSE s

RECURSIVE RStrip(_)
RStrip(s) == IF s # <<>> /\ s[Len(s)] = "w" THEN RStrip(SubSeq(s, 1, Len(s) - 1)) ELSE s

Strip(s) == RStrip(LStrip(s))

\* re.search(r'\{.*\}', content, re.DOTALL): leftmost "{" that has a "}" after
\* it, extended greedily to the last "}" of the text.
Positions(s, t) == {i \in 1..Len(s) : s[i] = t}

Min(S) == CHOOSE x \in S : \A y \in S : x <= y

Max(S) == CHOOSE x \in S : \A y \in S : x >= y

HasJsonSpan(s) ==
    /\ Positions(s, "{") # {}
    /\ Positions(s, "}") # {}
    /\ Min(Positions(s, "{")) < Max(Positions(s, "}"))

JsonSpan(s) == SubSeq(s, Min(Positions(s, "{")), Max(Positions(s, "}")))

\* json.loads on a span that starts with "{" and ends with "}".
RECURSIVE DropWs(_)
DropWs(s) ==
    IF s = <<>> THEN <<>>
    ELSE IF Head(s) = "w" THEN DropWs(Tail(s))
    ELSE <<Head(s)>> \o DropWs(Tail(s))

Inner(span) == DropWs(SubSeq(span, 2, Len(span) - 1))

\* members separated by single commas, no trailing comma, nothing else
WellFormedMembers(m) ==
    \/ m = <<>>
    \/ /\ Len(m) % 2 = 1
       /\ \A i \in 1..Len(m) :
            IF i % 2 = 1 THEN m[i] \in MemberTokens ELSE m[i] = ","

Decodes(span) == WellFormedMembers(Inner(span))

\* the decoded dict: on a repeated key the last member wins
RECURSIVE FoldMembers(_, _)
FoldMembers(m, obj) ==
    IF m = <<>> THEN obj
    ELSE IF Head(m) = "," THEN FoldMembers(Tail(m), obj)
    ELSE FoldMembers(Tail(m),
            [k \in (DOMAIN obj) \cup {MemberKey(Head(m))} |->
                IF k = MemberKey(Head(m)) THEN MemberVal(Head(m)) ELSE obj[k]])

JsonLoads(span) == FoldMembers(Inner(span), EmptyObj)

\* ------------------------------------------------------- response model
\* A JSON value found where the content is expected.
Str(t) == [tag |-> "str", text |-> t]

Absent == [tag |-> "absent", text |-> <<>>]

Null == [tag |-> "null", text |-> <<>>]

TruthyNonStr == [tag |-> "truthy", text |-> <<>>]

\* The decoded body of a 2xx response.  choices is one of "absent", "null",
\* "empty_list", "list_dict" (first element is a mapping), "list_other"
\* (first element is not a mapping), "dict" (a non-empty mapping), "scalar"
\* (a non-empty string, a number, true).  message is one of "absent", "null",
\* "dict", "other".
Envelope(d, c, m, mc, tc) ==
    [isDict |-> d, choices |-> c, message |-> m, mcontent |-> mc, content |-> tc]

NoData == Envelope(FALSE, "absent", "absent", Absent, Absent)

\* outcome of requests.post + raise_for_status + response.json
HttpError == [ok |-> FALSE, data |-> NoData]

HttpOk(data) == [ok |-> TRUE, data |-> data]

ViaChoices(t) == HttpOk(Envelope(TRUE, "list_dict", "dict", Str(t), Absent))

ViaTop(t) == HttpOk(Envelope(TRUE, "absent", "absent", Absent, Str(t)))

\* x or "" for the value fetched by .get("content", "")
OrEmpty(v) ==
    IF v.tag = "str" THEN [raised |-> FALSE, isStr |-> TRUE, text |-> v.text]
    ELSE IF v.tag = "truthy" THEN [raised |-> FALSE, isStr |-> FALSE, text |-> <<>>]
    ELSE [raised |-> FALSE, isStr |-> TRUE, text |-> <<>>]

Raised == [raised |-> TRUE, isStr |-> TRUE, text |-> <<>>]

ChoicesTruthy(c) == c \in {"list_dict", "list_other", "dict", "scalar"}

\* lines 95-101 of _request_completion
ExtractContent(data) ==
    IF ~data.isDict THEN OrEmpty(Absent)
    ELSE IF ChoicesTruthy(data.choices) THEN
        IF data.choices # "list_dict" THEN Raised
        ELSE IF data.message = "absent" THEN OrEmpty(Absent)
        ELSE IF data.message = "dict" THEN OrEmpty(data.mcontent)
        ELSE Raised
    ELSE OrEmpty(data.content)

\* if content: (a non-empty str or any other truthy value)
ContentTruthy(x) == ~x.isStr \/ x.text # <<>>

\* ---------------------------------------------------------------- state
VARIABLES
    data_all,          \* the loaded dataset: a sequence of records
    MAX_RETRIES,       \* LLM_MAX_RETRIES, resolved once at start
    MAX_WORKERS,       \* LLM_MAX_WORKERS, resolved once at start
    stub,              \* per prompt: the responses the endpoint may give to it
    mainpc,            \* position of main
    task,              \* per item index: the process_item invocation
    futures,           \* per item index: the future returned by submit
    analysis_results,  \* main's list of (idx, processed) pairs
    error_records,     \* _error_records, the Error Ledger
    error_lock,        \* _error_lock: the set of holders (empty or one)
    output_file,       \* analysis_results.json
    error_file,        \* ERROR_LOG_PATH
    hist,              \* per item index: the responses its requests received
    yielded,           \* the item indexes in the order as_completed yielded them
    record_calls       \* the number of _record_error calls that have returned

vars == <<data_all, MAX_RETRIES, MAX_WORKERS, stub, mainpc, task, futures, analysis_results,
          error_records, error_lock, output_file, error_file, hist, yielded, record_calls>>

N == Len(data_all)

Idx == 0 .. (N - 1)

Item(i) == data_all[i + 1]

\* ---------------------------------------------------------------- records
DictItem(t) == [isDict |-> TRUE, text |-> t, has_analysis |-> FALSE, analysis |-> EmptyObj]

NonDictItem == [isDict |-> FALSE, text |-> 0, has_analysis |-> FALSE, analysis |-> EmptyObj]

\* _build_prompt: the prompt is a function of the record's text
Prompt(item) == item.text

Prompts == 1..MaxN

\* the datasets explored: record k is a mapping with its own text, or a JSON
\* value that is not a mapping
Datasets(n) ==
    UNION {{s \in [1..m -> {DictItem(k) : k \in 1..m} \cup {NonDictItem}] :
                \A k \in 1..m : s[k] \in {DictItem(k), NonDictItem}} : m \in 0..n}

FailureAnalysis == [error |-> "Failed to get a valid analysis from the model."]

NoneResult == [isNone |-> TRUE, obj |-> EmptyObj]

Some(obj) == [isNone |-> FALSE, obj |-> obj]

\* if analysis_result: (None and the empty dict are both falsy)
ResultTruthy(r) == ~r.isNone /\ r.obj # EmptyObj

\* lines 147-156 of process_item: a copy of the item with the analysis set
Processed(item, r) ==
    [item EXCEPT !.has_analysis = TRUE,
                 !.analysis = IF ResultTruthy(r) THEN r.obj ELSE FailureAnalysis]

\* ---------------------------------------------------------- ledger entries
NoDetails == [key |-> "none", text |-> <<>>, response |-> NoData]

Entry(i, msg, att, det) ==
    [item_index |-> i, message |-> msg, attempt |-> att, details |-> det]

NoEntry == Entry(-1, "none", 0, NoDetails)

RequestFailedEntry(i, att) == Entry(i, "request_failed", att, NoDetails)

EmptyContentEntry(i, data) ==
    Entry(i, "empty_response", 0, [key |-> "response", text |-> <<>>, response |-> data])

JsonDecodeEntry(i, content) ==
    Entry(i, "json_decode_failed", 0, [key |-> "content", text |-> content, response |-> NoData])

NoJsonEntry_NoDetails(i, content) == Entry(i, "no_json_block", 0, NoDetails)

NoJsonEntry(i, content) ==
    Entry(i, "no_json_block", 0, [key |-> "content", text |-> content, response |-> NoData])

UnexpectedEntry(i) ==
    Entry(i, "unexpected_failure", 0, [key |-> "exception", text |-> <<>>, response |-> NoData])

\* --------------------------------------------------------------- helpers
Queued == [pc |-> "queued", attempt |-> 0, content |-> <<>>, result |-> NoneResult,
           entry |-> NoEntry, after |-> "none", sleep_time |-> 0]

PendingFuture == [state |-> "pending", result |-> NonDictItem]

Running == {i \in Idx : task[i].pc \notin {"queued", "done", "raised"}}

Yielded == {yielded[k] : k \in 1..Len(yielded)}

\* analysis_results.sort(key=lambda x: x[0]): a stable sort on the index
SortByIdx_Unsorted(s) == s

RECURSIVE InsertByIdx_Descending(_, _)
InsertByIdx_Descending(p, s) ==
    IF s = <<>> THEN <<p>>
    ELSE IF p[1] > Head(s)[1] THEN <<p>> \o s
    ELSE <<Head(s)>> \o InsertByIdx_Descending(p, Tail(s))

RECURSIVE InsertByIdx(_, _)
InsertByIdx(p, s) ==
    IF s = <<>> THEN <<p>>
    ELSE IF p[1] < Head(s)[1] THEN <<p>> \o s
    ELSE <<Head(s)>> \o InsertByIdx(p, Tail(s))

RECURSIVE SortByIdx(_)
SortByIdx(s) ==
    IF s = <<>> THEN <<>>
    ELSE InsertByIdx(s[Len(s)], SortByIdx(SubSeq(s, 1, Len(s) - 1)))

\* ordered_results = [item for _, item in analysis_results]
Project(s) == [k \in 1..Len(s) |-> s[k][2]]

\* ------------------------------------------------------------------ stub
TGood == <<"p", "{", "A", ",", "S", "}">>

TPadded == <<"w", "{", "A", "}", "w">>

TEmptyObj == <<"{", "}">>

TErrorObj == <<"{", "E", "}">>

TNoJson == <<"p">>

TMalformed == <<"{", "p", "}">>

TTwoObjects == <<"{", "A", "}", "{", "S", "}">>

TBlank == <<"w">>

TBadAction == <<"{", "X", "}">>

\* every kind of response the endpoint can give
AllResponses ==
    { HttpError,
      ViaChoices(<<>>),
      HttpOk(NoData),
      ViaChoices(TGood), ViaTop(TPadded), ViaChoices(TEmptyObj), ViaChoices(TErrorObj),
      ViaChoices(TNoJson), ViaTop(TMalformed), ViaChoices(TTwoObjects), ViaChoices(TBlank),
      ViaChoices(TBadAction),
      HttpOk(Envelope(TRUE, "list_dict", "dict", Str(<<>>), Str(TGood))),
      HttpOk(Envelope(TRUE, "list_other", "absent", Absent, Absent)),
      HttpOk(Envelope(TRUE, "list_dict", "null", Absent, Str(TGood))),
      HttpOk(Envelope(TRUE, "scalar", "absent", Absent, Absent)),
      HttpOk(Envelope(TRUE, "list_dict", "dict", TruthyNonStr, Absent)),
      HttpOk(Envelope(TRUE, "empty_list", "absent", Absent, Null)) }

\* the responses of the runs with several records
PipelineResponses ==
    { HttpError, ViaChoices(<<>>), ViaChoices(TGood), ViaChoices(TNoJson) }

\* ------------------------------------------------------------------ Init
InitWith(datasets, stubs, retries) ==
    /\ data_all \in datasets
    /\ MAX_RETRIES \in retries
    /\ Len(data_all) * MAX_RETRIES <= MaxRequests
    /\ MAX_WORKERS \in 1..MaxWorkersCfg
    /\ stub \in stubs
    /\ mainpc = "start"
    /\ task = [i \in Idx |-> Queued]
    /\ futures = [i \in Idx |-> PendingFuture]
    /\ analysis_results = <<>>
    /\ error_records = <<>>
    /\ error_lock = {}
    /\ output_file = [written |-> FALSE, content |-> <<>>]
    /\ error_file = [written |-> FALSE, content |-> <<>>]
    /\ hist = [i \in Idx |-> <<>>]
    /\ yielded = <<>>
    /\ record_calls = 0

\* an endpoint that may give any of the responses to any prompt
AnyOf(responses) == {[p \in Prompts |-> responses]}

\* the endpoints whose response depends only on the prompt
Deterministic(responses) == [Prompts -> {{r} : r \in responses}]

Init == InitWith(Datasets(MaxN), AnyOf(PipelineResponses), 0..MaxRetriesCfg)

InitItem == InitWith(Datasets(1), AnyOf(AllResponses), 0..MaxRetriesItem)

InitDet == InitWith(Datasets(MaxN), Deterministic(PipelineResponses), 0..MaxRetriesCfg)

\* ------------------------------------------------------------------ main
\* lines 160-171: the early return on an empty dataset, else submit every item
Dispatch ==
    /\ mainpc = "start"
    /\ mainpc' = IF N = 0 THEN "done" ELSE "collect"
    /\ UNCHANGED <<data_all, MAX_RETRIES, MAX_WORKERS, stub, task, futures, analysis_results,
                   error_records, error_lock, output_file, error_file, hist, yielded, record_calls>>

\* lines 173-176: as_completed yields some finished future; result() re-raises
Collect(i) ==
    /\ mainpc = "collect"
    /\ i \notin Yielded
    /\ futures[i].state \in {"finished", "failed"}
    /\ yielded' = Append(yielded, i)
    /\ IF futures[i].state = "failed"
       THEN /\ mainpc' = "unwinding"
            /\ UNCHANGED analysis_results
       ELSE /\ analysis_results' = Append(analysis_results, <<i, futures[i].result>>)
            /\ UNCHANGED mainpc
    /\ UNCHANGED <<data_all, MAX_RETRIES, MAX_WORKERS, stub, task, futures,
                   error_records, error_lock, output_file, error_file, hist, record_calls>>

\* the for loop over as_completed ends when every future has been yielded
AllCollected_AnyOne == Yielded # {}

AllCollected == Yielded = Idx

\* line 167: leaving the with block joins the pool (shutdown(wait=True))
PoolJoined == Running = {} /\ \A i \in Idx : task[i].pc # "queued"

Join ==
    /\ PoolJoined
    /\ \/ /\ mainpc = "collect"
          /\ AllCollected
          /\ mainpc' = "sort"
       \/ /\ mainpc = "unwinding"
          /\ mainpc' = "aborted"
    /\ UNCHANGED <<data_all, MAX_RETRIES, MAX_WORKERS, stub, task, futures, analysis_results,
                   error_records, error_lock, output_file, error_file, hist, yielded, record_calls>>

\* lines 178-185: sort, project, dump
SortAndWrite ==
    /\ mainpc = "sort"
    /\ analysis_results' = SortByIdx(analysis_results)
    /\ output_file' = [written |-> TRUE, content |-> Project(analysis_results')]
    /\ mainpc' = "report"
    /\ UNCHANGED <<data_all, MAX_RETRIES, MAX_WORKERS, stub, task, futures,
                   error_records, error_lock, error_file, hist, yielded, record_calls>>

\* if _error_records:
LedgerTruthy_Always(ledger) == TRUE

LedgerTruthy(ledger) == ledger # <<>>

\* lines 186-191
WriteErrors ==
    /\ mainpc = "report"
    /\ error_file' = IF LedgerTruthy(error_records)
                     THEN [written |-> TRUE, content |-> error_records]
                     ELSE error_file
    /\ mainpc' = "done"
    /\ UNCHANGED <<data_all, MAX_RETRIES, MAX_WORKERS, stub, task, futures, analysis_results,
                   error_records, error_lock, output_file, hist, yielded, record_calls>>

\* --------------------------------------------------------------- workers
\* line 79: attempt is in range(1, MAX_RETRIES + 1)
InRange_OneShort(attempt) == 1 <= attempt /\ attempt < MAX_RETRIES

InRange_OneMore(attempt) == 1 <= attempt /\ attempt <= MAX_RETRIES + 1

InRange(attempt) == 1 <= attempt /\ attempt <= MAX_RETRIES

\* line 109: if attempt < MAX_RETRIES
SleepsAfter_Always(attempt) == TRUE

SleepsAfter(attempt) == attempt < MAX_RETRIES

\* line 26, with the default of LLM_RETRY_BACKOFF
RETRY_BACKOFF == 2

\* line 110: sleep_time = RETRY_BACKOFF * attempt
SleepTime(attempt) == RETRY_BACKOFF * attempt

\* _request_completion returned (text, or <<>> for None): back in analyze_edit
Returned(t, content) == [t EXCEPT !.pc = "parse", !.content = content]

\* the for statement of line 79 takes the next attempt number, or the loop
\* ends and line 112 returns None
NextIteration(t) ==
    IF InRange(t.attempt + 1)
    THEN [t EXCEPT !.pc = "request", !.attempt = @ + 1]
    ELSE Returned(t, <<>>)

\* a call of _record_error with this entry; after says where the caller goes on
Recording(t, e, after) == [t EXCEPT !.pc = "record", !.entry = e, !.after = after]

\* line 167: the pool runs at most max_workers work items at a time
PoolHasIdleThread_Unbounded == TRUE

PoolHasIdleThread == Cardinality(Running) < MAX_WORKERS

\* a pool thread takes the oldest queued work item and runs process_item up to
\* the first request (lines 136-141, 116-117, 67-79)
StartTask(i) ==
    /\ mainpc # "start"
    /\ task[i].pc = "queued"
    /\ \A j \in Idx : task[j].pc = "queued" => i <= j
    /\ PoolHasIdleThread
    /\ IF ~Item(i).isDict
       THEN /\ task' = [task EXCEPT ![i].pc = "raised"]
            /\ futures' = [futures EXCEPT ![i].state = "failed"]
       ELSE /\ task' = [task EXCEPT ![i] = NextIteration(@)]
            /\ UNCHANGED futures
    /\ UNCHANGED <<data_all, MAX_RETRIES, MAX_WORKERS, stub, mainpc, analysis_results,
                   error_records, error_lock, output_file, error_file, hist, yielded, record_calls>>

\* one attempt: lines 80-107, up to the return or the call of _record_error;
\* an exception that is not a RequestException leaves analyze_edit and is
\* caught at lines 142-145
Request(i, r) ==
    /\ task[i].pc = "request"
    /\ r \in stub[Prompt(Item(i))]
    /\ hist' = [hist EXCEPT ![i] = Append(@, r)]
    /\ LET att == task[i].attempt
           x == ExtractContent(r.data)
       IN task' = [task EXCEPT ![i] =
            IF ~r.ok THEN Recording(@, RequestFailedEntry(i, att), "retry")
            ELSE IF x.raised THEN Recording(@, UnexpectedEntry(i), "build")
            ELSE IF ContentTruthy(x) THEN
                IF x.isStr THEN Returned(@, Strip(x.text))
                ELSE Recording(@, UnexpectedEntry(i), "build")
            ELSE Recording(@, EmptyContentEntry(i, r.data), "retry")]
    /\ UNCHANGED <<data_all, MAX_RETRIES, MAX_WORKERS, stub, mainpc, futures, analysis_results,
                   error_records, error_lock, output_file, error_file, yielded, record_calls>>

\* line 63: _error_records.append(entry)
LedgerAppend_Overwrite(ledger, e) ==
    IF ledger = <<>> THEN <<e>> ELSE [ledger EXCEPT ![Len(ledger)] = e]

LedgerAppend_Prepend(ledger, e) == <<e>> \o ledger

LedgerAppend(ledger, e) == Append(ledger, e)

\* lines 110-111: _record_error has returned and the worker sleeps
Sleeping(t) ==
    [t EXCEPT !.pc = "sleep", !.entry = NoEntry, !.after = "none",
              !.sleep_time = SleepTime(t.attempt)]

\* line 62: with _error_lock
AcquireLock(i) ==
    /\ task[i].pc = "record"
    /\ error_lock = {}
    /\ error_lock' = {i}
    /\ task' = [task EXCEPT ![i].pc = "locked"]
    /\ UNCHANGED <<data_all, MAX_RETRIES, MAX_WORKERS, stub, mainpc, futures, analysis_results,
                   error_records, output_file, error_file, hist, yielded, record_calls>>

\* line 63 and the release; then the caller continues (line 109 after a
\* failed attempt)
AppendEntry(i) ==
    /\ task[i].pc = "locked"
    /\ error_records' = LedgerAppend(error_records, task[i].entry)
    /\ record_calls' = record_calls + 1
    /\ error_lock' = error_lock \ {i}
    /\ task' = [task EXCEPT ![i] =
            IF @.after = "retry"
            THEN IF SleepsAfter(@.attempt)
                 THEN Sleeping(@)
                 ELSE [NextIteration(@) EXCEPT !.entry = NoEntry, !.after = "none"]
            ELSE [@ EXCEPT !.pc = "build", !.entry = NoEntry, !.after = "none"]]
    /\ UNCHANGED <<data_all, MAX_RETRIES, MAX_WORKERS, stub, mainpc, futures, analysis_results,
                   output_file, error_file, hist, yielded>>

\* lines 110-111: the sleep ends and the loop goes on
Backoff(i) ==
    /\ task[i].pc = "sleep"
    /\ task' = [task EXCEPT ![i] = NextIteration(@)]
    /\ UNCHANGED <<data_all, MAX_RETRIES, MAX_WORKERS, stub, mainpc, futures, analysis_results,
                   error_records, error_lock, output_file, error_file, hist, yielded, record_calls>>

\* lines 118-132 of analyze_edit
Parse(i) ==
    /\ task[i].pc = "parse"
    /\ LET content == task[i].content
       IN task' = [task EXCEPT ![i] =
            IF content = <<>> THEN [@ EXCEPT !.pc = "build", !.result = NoneResult]
            ELSE IF HasJsonSpan(content) THEN
                IF Decodes(JsonSpan(content))
                THEN [@ EXCEPT !.pc = "build", !.result = Some(JsonLoads(JsonSpan(content)))]
                ELSE Recording(@, JsonDecodeEntry(i, content), "build")
            ELSE Recording(@, NoJsonEntry(i, content), "build")]
    /\ UNCHANGED <<data_all, MAX_RETRIES, MAX_WORKERS, stub, mainpc, futures, analysis_results,
                   error_records, error_lock, output_file, error_file, hist, yielded, record_calls>>

\* line 147: processed = dict(item) is a new mapping, so the assignments of
\* lines 149 and 154 leave the record held by data_all as it was
InputAfter_Aliased(item, processed) == processed

InputAfter(item, processed) == item

\* lines 147-156 of process_item; the future gets (idx, processed)
Build(i) ==
    /\ task[i].pc = "build"
    /\ task' = [task EXCEPT ![i].pc = "done"]
    /\ futures' = [futures EXCEPT ![i] =
            [state |-> "finished", result |-> Processed(Item(i), task[i].result)]]
    /\ data_all' = [data_all EXCEPT ![i + 1] =
            InputAfter(@, Processed(Item(i), task[i].result))]
    /\ UNCHANGED <<MAX_RETRIES, MAX_WORKERS, stub, mainpc, analysis_results,
                   error_records, error_lock, output_file, error_file, hist, yielded, record_calls>>

\* ------------------------------------------------------------------ Next
Next ==
    \/ Dispatch
    \/ \E i \in Idx : Collect(i)
    \/ Join
    \/ SortAndWrite
    \/ WriteErrors
    \/ \E i \in Idx : StartTask(i)
    \/ \E i \in Idx : \E r \in AllResponses : Request(i, r)
    \/ \E i \in Idx : AcquireLock(i)
    \/ \E i \in Idx : AppendEntry(i)
    \/ \E i \in Idx : Backoff(i)
    \/ \E i \in Idx : Parse(i)
    \/ \E i \in Idx : Build(i)

Spec == Init /\ [][Next]_vars

SpecItem == InitItem /\ [][Next]_vars

SpecDet == InitDet /\ [][Next]_vars

\* ============================================================ properties
LedgerOf(i) == SelectSeq(error_records, LAMBDA e : e.item_index = i)

LedgerOfKind(i, msgs) == SelectSeq(error_records, LAMBDA e : e.item_index = i /\ e.message \in msgs)

Last(s) == s[Len(s)]

\* process_item has returned or raised for item i
Settled(i) == task[i].pc \in {"done", "raised"}

\* the response is a transport failure, or a 2xx response with empty content
IsFailedAttempt(r) ==
    \/ ~r.ok
    \/ /\ ~ExtractContent(r.data).raised
       /\ ExtractContent(r.data).isStr
       /\ ExtractContent(r.data).text = <<>>

\* the response carries a text
IsReply(r) ==
    /\ r.ok
    /\ ~ExtractContent(r.data).raised
    /\ ExtractContent(r.data).isStr
    /\ ExtractContent(r.data).text # <<>>

ReplyText(r) == ExtractContent(r.data).text

\* the reply has a JSON span that decodes
IsParseable(r) ==
    /\ IsReply(r)
    /\ HasJsonSpan(ReplyText(r))
    /\ Decodes(JsonSpan(ReplyText(r)))

AllFailed(h) == \A k \in 1..Len(h) : IsFailedAttempt(h[k])

\* C1: whatever the completion order, the list main writes has exactly N
\* entries and entry i is the annotated copy of input record i.
C1_OrderPreserved ==
    output_file.written =>
        /\ Len(output_file.content) = N
        /\ \A i \in Idx :
            /\ output_file.content[i + 1] = futures[i].result
            /\ output_file.content[i + 1].has_analysis
            /\ [output_file.content[i + 1] EXCEPT !.has_analysis = FALSE,
                                                  !.analysis = EmptyObj] = Item(i)

\* the output was written after the second record completed before the first
C1_Witness ==
    /\ output_file.written
    /\ N = 2
    /\ yielded = <<1, 0>>
    /\ output_file.content[1].analysis # output_file.content[2].analysis

\* C2: process_item returns (idx, annotatedRecord) for every loaded record, so
\* no fault of one item reaches main's future.result() and aborts the batch.
C2_NoFaultReachesMain ==
    /\ \A i \in Idx : futures[i].state # "failed"
    /\ mainpc \notin {"unwinding", "aborted"}

\* C3: k < MAX_RETRIES failed attempts followed by a parseable reply give the
\* Success object and exactly k ledger entries with the item's index.
C3_RetryThenSuccess ==
    \A i \in Idx :
        (/\ Settled(i)
         /\ hist[i] # <<>>
         /\ IsParseable(Last(hist[i]))
         /\ AllFailed(SubSeq(hist[i], 1, Len(hist[i]) - 1))
         /\ Len(hist[i]) - 1 < MAX_RETRIES)
        => /\ futures[i].state = "finished"
           /\ futures[i].result.analysis = JsonLoads(JsonSpan(ReplyText(Last(hist[i]))))
           /\ Len(LedgerOf(i)) = Len(hist[i]) - 1

\* C4: when every attempt for an item fails (transport failure or empty
\* content), exactly MAX_RETRIES requests were sent, the analysis is the
\* Failure marker, the ledger holds MAX_RETRIES (or MAX_RETRIES + 1) entries
\* with the item's index, and process_item returned.  The items are the
\* records whose processing reaches the completion client.
C4_Exhaustion ==
    \A i \in Idx :
        (Item(i).isDict /\ Settled(i) /\ AllFailed(hist[i]))
        => /\ Len(hist[i]) = MAX_RETRIES
           /\ futures[i].state = "finished"
           /\ futures[i].result.analysis = FailureAnalysis
           /\ Len(LedgerOf(i)) \in {MAX_RETRIES, MAX_RETRIES + 1}

\* an item exhausted its retries while the other item's entries interleaved
C4_Witness ==
    /\ N = 2
    /\ MAX_RETRIES = 2
    /\ \A i \in Idx : Settled(i) /\ Len(hist[i]) = 2 /\ AllFailed(hist[i])
    /\ \E k \in 1..3 : error_records[k].item_index = 1 /\ error_records[k + 1].item_index = 0
    /\ \E i \in Idx : hist[i][1] # hist[i][2]

\* C5: a record whose model replies never parse carries the Failure analysis
\* and has at least one ledger entry with its index.
C5_UnparsedIsLogged ==
    \A i \in Idx :
        (/\ Settled(i)
         /\ \E k \in 1..Len(hist[i]) : IsReply(hist[i][k])
         /\ \A k \in 1..Len(hist[i]) : IsReply(hist[i][k]) => ~IsParseable(hist[i][k]))
        => /\ futures[i].state = "finished"
           /\ futures[i].result.analysis = FailureAnalysis
           /\ Len(LedgerOf(i)) >= 1

\* the analysis is the object decoded from the reply that ended the requests
IsSuccessVariant(i, a) ==
    /\ hist[i] # <<>>
    /\ IsParseable(Last(hist[i]))
    /\ a = JsonLoads(JsonSpan(ReplyText(Last(hist[i]))))

\* the analysis has the shape {"error": ...}
IsFailureVariant(a) == "error" \in DOMAIN a

\* C6: every output record has an analysis that is exactly one of the Success
\* object decoded from the reply or the Failure marker, never absent or both.
C6_ExactlyOneVariant ==
    output_file.written =>
        \A i \in Idx :
            /\ output_file.content[i + 1].has_analysis
            /\ IsSuccessVariant(i, output_file.content[i + 1].analysis)
                  # IsFailureVariant(output_file.content[i + 1].analysis)

ParseEntries(i) == LedgerOfKind(i, {"json_decode_failed", "no_json_block"})

AttemptEntries(i) == LedgerOfKind(i, {"request_failed", "empty_response"})

\* analyze_edit got a non-empty text without a decodable span and has returned
ParseFailed(i) ==
    /\ task[i].pc \in {"build", "done"}
    /\ task[i].content # <<>>
    /\ ~(HasJsonSpan(task[i].content) /\ Decodes(JsonSpan(task[i].content)))

\* C7: a parse failure is final: the request that returned the text is the
\* item's last one and exactly one ledger entry records the parse failure,
\* with the returned text attached as detail.
C7_ParseFailureFinal ==
    \A i \in Idx :
        ParseFailed(i) =>
            /\ Len(ParseEntries(i)) = 1
            /\ ParseEntries(i)[1].details.key = "content"
            /\ ParseEntries(i)[1].details.text = task[i].content
            /\ ParseEntries(i)[1].details.text = Strip(ReplyText(Last(hist[i])))
            /\ ParseEntries(i)[1].message =
                  (IF HasJsonSpan(task[i].content) THEN "json_decode_failed" ELSE "no_json_block")
            /\ Last(LedgerOf(i)) = ParseEntries(i)[1]
            /\ Len(hist[i]) = Len(AttemptEntries(i)) + 1
            /\ futures[i].state = "finished" => futures[i].result.analysis = FailureAnalysis

\* a reply without any brace arrived on the second attempt and was logged
C7_Witness ==
    \E i \in Idx :
        /\ ParseFailed(i)
        /\ task[i].pc = "done"
        /\ Len(hist[i]) = 2
        /\ ~HasJsonSpan(task[i].content)
        /\ Len(LedgerOf(i)) = 2

\* the envelope has one of the two shapes: choices[0].message.content, or a
\* top-level content without choices
Recognised(d) ==
    /\ d.isDict
    /\ \/ /\ d.choices = "list_dict"
          /\ d.message = "dict"
          /\ d.mcontent.tag \in {"str", "absent", "null"}
       \/ /\ d.choices \in {"absent", "null", "empty_list"}
          /\ d.content.tag \in {"str", "absent", "null"}

\* C8: a 2xx response whose envelope has neither recognised shape is treated
\* as empty content: one empty-content ledger entry, and a retry while
\* attempts remain.
C8_OtherShapeIsEmpty ==
    \A i \in Idx :
        Settled(i) =>
            \A k \in 1..Len(hist[i]) :
                (hist[i][k].ok /\ ~Recognised(hist[i][k].data)) =>
                    /\ \E n \in 1..Len(error_records) :
                          /\ error_records[n].item_index = i
                          /\ error_records[n].message = "empty_response"
                          /\ error_records[n].details.response = hist[i][k].data
                    /\ k < MAX_RETRIES => Len(hist[i]) > k

\* main is past the with block of line 167
PastFanIn == mainpc \in {"sort", "report"} \/ (mainpc = "done" /\ N > 0)

\* C9: main sorts, writes and reads the ledger only after every task has
\* finished, every result was collected and the pool has joined, and from
\* then on no worker appends to the ledger.
C9_FanInBeforeArtifacts ==
    /\ [](((PastFanIn \/ output_file.written \/ error_file.written) =>
            /\ \A i \in Idx : task[i].pc = "done" /\ futures[i].state = "finished" /\ i \in Yielded
            /\ Len(analysis_results) = N
            /\ error_lock = {}))
    /\ [][PastFanIn => (error_records' = error_records /\ task' = task)]_vars

\* both items logged errors and both artifacts were written
C9_Witness ==
    /\ mainpc = "done"
    /\ N = 2
    /\ output_file.written
    /\ error_file.written
    /\ \A i \in Idx : Len(LedgerOf(i)) >= 1

\* C10 as stated: every run of main that reaches its end, for every N
\* including 0, has written the ordered records, and has written the error
\* artifact if and only if the ledger is non-empty.
C10_Original ==
    mainpc = "done" =>
        /\ output_file.written
        /\ output_file.content = Project(analysis_results)
        /\ Len(output_file.content) = N
        /\ error_file.written <=> (error_records # <<>>)

\* C10 amended: for N >= 1 every run that reaches its end has written the
\* ordered records and has written the error artifact iff the ledger is
\* non-empty; for N = 0 main returns without writing either artifact.
C10_Amended ==
    mainpc = "done" =>
        IF N = 0
        THEN ~output_file.written /\ ~error_file.written /\ error_records = <<>>
        ELSE /\ output_file.written
             /\ output_file.content = Project(analysis_results)
             /\ Len(output_file.content) = N
             /\ \A k \in 1..N : analysis_results[k][1] = k - 1
             /\ error_file.written <=> (error_records # <<>>)
             /\ error_file.written => error_file.content = error_records

\* a run of two records ended with an empty ledger and no error artifact
C10_Witness ==
    /\ mainpc = "done"
    /\ N = 2
    /\ output_file.written
    /\ error_records = <<>>
    /\ ~error_file.written

Locked == {i \in Idx : task[i].pc = "locked"}

\* C11: under any interleaving the ledger is append-only: a call adds exactly
\* one entry at the end, nothing already there is removed, reordered or
\* changed, no append is lost (the length is the number of completed calls),
\* and at most one worker is inside the locked region.
C11_AppendOnly ==
    /\ [](/\ Len(error_records) = record_calls
          /\ Cardinality(Locked) <= 1
          /\ error_lock = Locked)
    /\ [][\/ error_records' = error_records /\ record_calls' = record_calls
          \/ /\ record_calls' = record_calls + 1
             /\ Len(error_records') = Len(error_records) + 1
             /\ SubSeq(error_records', 1, Len(error_records)) = error_records
             /\ \E i \in Locked : error_records'[Len(error_records')] = task[i].entry]_vars

\* one worker holds the lock while the other waits to record, after both
\* have already appended
C11_Witness ==
    /\ N = 2
    /\ task[0].pc = "record"
    /\ task[1].pc = "locked"
    /\ Len(LedgerOf(0)) >= 1
    /\ Len(LedgerOf(1)) >= 1

\* the response a deterministic endpoint gives to the prompt of the record
ReplyTo(item) == CHOOSE r \in stub[Prompt(item)] : TRUE

\* the analysis decided by the responses alone
ExpectedAnalysis(item) ==
    LET r == ReplyTo(item)
        x == ExtractContent(r.data)
        t == Strip(x.text)
    IN IF MAX_RETRIES >= 1 /\ IsReply(r) /\ HasJsonSpan(t) /\ Decodes(JsonSpan(t))
          /\ JsonLoads(JsonSpan(t)) # EmptyObj
       THEN JsonLoads(JsonSpan(t))
       ELSE FailureAnalysis

\* C12: against an endpoint whose reply depends only on the prompt, the output
\* array is the same in every run over the same input: in every run it is the
\* array decided by the input and the endpoint alone, whatever the scheduling
\* and the completion order.
C12_OutputDetermined ==
    output_file.written =>
        output_file.content =
            [k \in 1..N |-> [data_all[k] EXCEPT !.has_analysis = TRUE,
                                                !.analysis = ExpectedAnalysis(data_all[k])]]

\* two workers, the second record completed first, different analyses
C12_Witness ==
    /\ output_file.written
    /\ N = 2
    /\ MAX_WORKERS = 2
    /\ yielded = <<1, 0>>
    /\ output_file.content[1].analysis = FailureAnalysis
    /\ output_file.content[2].analysis # FailureAnalysis

ConfidenceScores == {"0", "1", "2", "3", "4", "5", "6", "7", "8", "9", "10"}

\* C13: a Success analysis has an action among add, remove, other and a
\* confidence_score in 0..10, for every object the model replies with.
C13_SuccessWellFormed ==
    output_file.written =>
        \A i \in Idx :
            LET a == output_file.content[i + 1].analysis
            IN IsSuccessVariant(i, a) =>
                /\ "action" \in DOMAIN a
                /\ a["action"] \in {"add", "remove", "other"}
                /\ "confidence_score" \in DOMAIN a
                /\ a["confidence_score"] \in ConfidenceScores

\* the loop of _request_completion is over for item i
PastLoop(i) == task[i].pc \in {"parse", "build", "done"}

\* every attempt of the call for item i failed
Exhausted(i) ==
    /\ MAX_RETRIES >= 1
    /\ PastLoop(i)
    /\ AllFailed(hist[i])

\* C14 as stated: when all MAX_RETRIES attempts of a call fail, the call
\* returns no result without raising and the ledger has MAX_RETRIES + 1
\* entries for that call (one per failed attempt plus one for giving up).
C14_Original ==
    \A i \in Idx :
        Exhausted(i) =>
            /\ task[i].content = <<>>
            /\ Len(hist[i]) = MAX_RETRIES
            /\ Len(LedgerOf(i)) = MAX_RETRIES + 1

\* C14 amended: when all MAX_RETRIES attempts of a call fail, the call
\* returns no result without raising and the ledger has exactly one entry per
\* failed attempt and none for giving up (MAX_RETRIES entries for that call).
C14_Amended ==
    \A i \in Idx :
        Exhausted(i) =>
            /\ task[i].content = <<>>
            /\ task[i].result = NoneResult
            /\ Len(hist[i]) = MAX_RETRIES
            /\ Len(LedgerOf(i)) = MAX_RETRIES
            /\ LedgerOf(i) = AttemptEntries(i)

\* the call has just returned None after two failed attempts of different kinds
C14_Witness ==
    \E i \in Idx :
        /\ Exhausted(i)
        /\ task[i].pc = "parse"
        /\ MAX_RETRIES = 2
        /\ hist[i][1] # hist[i][2]

\* C15: one process_item invocation per input record, never started twice,
\* and at most MAX_WORKERS invocations executing at the same time.
C15_BoundedPool ==
    /\ [](/\ DOMAIN task = Idx
          /\ DOMAIN futures = Idx
          /\ Cardinality(Running) <= MAX_WORKERS
          /\ PastFanIn => \A i \in Idx : Settled(i))
    /\ [][\A i \in Idx : task[i].pc # "queued" => task'[i].pc # "queued"]_vars

\* one worker: the first record sleeps between attempts, the second waits
C15_Witness ==
    /\ N = 2
    /\ MAX_WORKERS = 1
    /\ task[0].pc = "sleep"
    /\ task[1].pc = "queued"

\* C16: attempts are numbered from 1; after failed attempt n < MAX_RETRIES
\* the worker sleeps RETRY_BACKOFF * n before attempt n + 1, and after failed
\* attempt MAX_RETRIES it does not sleep before the call returns no result.
C16_LinearBackoff ==
    \A i \in Idx :
        /\ task[i].pc = "request" =>
              /\ task[i].attempt >= 1
              /\ task[i].attempt = Len(hist[i]) + 1
              /\ task[i].sleep_time = RETRY_BACKOFF * (task[i].attempt - 1)
        /\ task[i].pc = "sleep" =>
              /\ task[i].attempt = Len(hist[i])
              /\ task[i].attempt < MAX_RETRIES
              /\ IsFailedAttempt(Last(hist[i]))
              /\ task[i].sleep_time = RETRY_BACKOFF * task[i].attempt
        /\ Exhausted(i) =>
              /\ task[i].attempt = MAX_RETRIES
              /\ task[i].sleep_time = RETRY_BACKOFF * (MAX_RETRIES - 1)

\* the worker sleeps 2 * RETRY_BACKOFF after the second of three attempts
C16_Witness ==
    \E i \in Idx :
        /\ MAX_RETRIES = 3
        /\ task[i].pc = "sleep"
        /\ task[i].attempt = 2
        /\ task[i].sleep_time = 2 * RETRY_BACKOFF

\* the text a content value stands for
TextOf(v) == IF v.tag = "str" THEN v.text ELSE <<>>

\* the content of the envelope as the rule states it: choices[0].message.content
\* when choices is present and non-empty, else the top-level content
StatedContent(d) ==
    IF d.choices = "list_dict" THEN TextOf(d.mcontent) ELSE TextOf(d.content)

\* C17: for a recognised envelope the extracted content is
\* choices[0].message.content when choices is non-empty (no fallback), else
\* the top-level content, else empty; a response whose extracted content is
\* empty, whitespace-only included, is never returned but logged and retried.
C17_EmptyContentRetried ==
    \A i \in Idx :
        Settled(i) =>
            \A k \in 1..Len(hist[i]) :
                LET r == hist[i][k]
                IN (r.ok /\ Recognised(r.data)) =>
                    /\ ~ExtractContent(r.data).raised
                    /\ ExtractContent(r.data).text = StatedContent(r.data)
                    /\ Strip(StatedContent(r.data)) = <<>> =>
                          /\ \E n \in 1..Len(error_records) :
                                /\ error_records[n].item_index = i
                                /\ error_records[n].message = "empty_response"
                                /\ error_records[n].details.response = r.data
                          /\ k < MAX_RETRIES => Len(hist[i]) > k

\* C18: process_item never changes the record it is given: the dataset is the
\* same after every step, no record of it gets an analysis key, and the
\* analysis is on the copy handed to the coordinator.
C18_InputUntouched ==
    /\ [](\A i \in Idx :
            /\ ~Item(i).has_analysis
            /\ futures[i].state = "finished" =>
                  /\ futures[i].result.has_analysis
                  /\ futures[i].result.text = Item(i).text)
    /\ [][data_all' = data_all]_vars

\* both records were processed, one to a Success and one to a Failure
C18_Witness ==
    /\ N = 2
    /\ \A i \in Idx : futures[i].state = "finished" /\ ~Item(i).has_analysis
    /\ futures[0].result.analysis = FailureAnalysis
    /\ futures[1].result.analysis # FailureAnalysis

\* C19: every output record with the Failure marker has at least one ledger
\* entry with its index, whatever the model replied and for every
\* MAX_RETRIES; no item fails silently.
C19_NoSilentFailure ==
    \A i \in Idx :
        (futures[i].state = "finished" /\ futures[i].result.analysis = FailureAnalysis)
        => Len(LedgerOf(i)) >= 1

\* the ledger entry that attempt k of item i leaves when it fails
AttemptEntry(i, k, r) ==
    IF ~r.ok THEN RequestFailedEntry(i, k) ELSE EmptyContentEntry(i, r.data)

\* C20: per item at most MAX_RETRIES requests are sent, none after an attempt
\* that did not fail, and the item's ledger entries are in attempt order (the
\* k-th is the one of attempt k, any parse or fault entry comes last) even
\* when entries of other items lie between them.
C20_PerItemOrder ==
    \A i \in Idx :
        /\ Len(hist[i]) <= MAX_RETRIES
        /\ \A k \in 1..(Len(hist[i]) - 1) : IsFailedAttempt(hist[i][k])
        /\ Len(AttemptEntries(i)) <= Len(hist[i])
        /\ \A k \in 1..Len(AttemptEntries(i)) :
              /\ LedgerOf(i)[k] = AttemptEntries(i)[k]
              /\ AttemptEntries(i)[k] = AttemptEntry(i, k, hist[i][k])
        /\ Len(LedgerOf(i)) <= Len(AttemptEntries(i)) + 1

\* the two failed attempts of record 0 are logged around an entry of record 1
C20_Witness ==
    /\ N = 2
    /\ Len(error_records) >= 3
    /\ error_records[1] = RequestFailedEntry(0, 1)
    /\ error_records[2].item_index = 1
    /\ error_records[3].item_index = 0
    /\ error_records[3].message = "empty_response"

====
